---- MODULE Spec2Model ----
(***************************************************************************)
(* Model of the extraction request pipeline of the ACORD Extraction API   *)
(* (src/app.py): POST /extract-acord with its authorization, media-type  *)
(* and size checks, the PDF text extractor, the chunk/rejoin step, the    *)
(* completion call and the JSON relay.                                    *)
(*                                                                         *)
(* Text is a sequence of one-character strings.  The text of a completion *)
(* is a sequence of lexical JSON tokens.  A parsed Python value is a      *)
(* record [t |-> <type name>, v |-> <value>].                             *)
(***************************************************************************)
EXTENDS Integers, Sequences, FiniteSets, TLC

VARIABLES
    API_SECRET,        \* configuration read once at start (app.py:20)
    pc,                \* position of the handler extract_acord
    handled,           \* number of requests received so far
    x_api_key,         \* header of the current request
    content_type,      \* file.content_type of the current request
    file,              \* the upload: [size, ok, pages]
    request_id,        \* uuid generated for the current request
    text,              \* result of extract_text_from_pdf
    combined_text,     \* "\n".join(chunk_text(text))
    user_content,      \* content of the user message of the completion call
    completion,        \* outcome of the completion call
    response,          \* HTTP response of the current request
    steps,             \* the steps the handler has run for the current request
    extractor_calls,   \* calls of extract_text_from_pdf for the current request
    completion_calls   \* calls of client.chat.completions.create for it

vars == <<API_SECRET, pc, handled, x_api_key, content_type, file, request_id,
          text, combined_text, user_content, completion, response, steps,
          extractor_calls, completion_calls>>

(***************************************************************************)
(* Bounds of the model.                                                    *)
(***************************************************************************)
MaxRequests == 2
MaxPages == 2

(***************************************************************************)
(* Python values.                                                          *)
(***************************************************************************)
None == "None"

\* bool(s) of an optional string: None and "" are falsy, so an unset or
\* empty API_SECRET disables the authorization check.
Truthy(s) == s # None /\ s # ""

Secrets == {None, "", "k1"}
Headers == {None, "k1", "k2"}
ContentTypes == {"application/pdf", "application/PDF", "text/plain"}

ChunkSize == 3000
FileSizeLimit == 5 * 1024 * 1024
Sizes == {4096, FileSizeLimit, FileSizeLimit + 1}

Whitespace == {" ", "\n", "\t"}

\* The text page.extract_text() may return for a page.
Hello == <<"H", "e", "l", "l", "o">>
World == <<"W", "o", "r", "l", "d">>
PageTexts == { <<>>, <<" ">>, Hello, World, <<"A", "\n", "B">> }

\* A page of exactly one chunk of characters.
LongPage == [i \in 1..ChunkSize |-> "a"]

RECURSIVE SeqsUpTo(_, _)
SeqsUpTo(S, n) ==
    IF n = 0 THEN { <<>> }
    ELSE LET shorter == SeqsUpTo(S, n - 1)
         IN  shorter \cup { Append(s, x) : s \in shorter, x \in S }

\* The documents: every sequence of at most MaxPages short pages, and the
\* documents whose text is longer than one chunk.
Documents ==
    SeqsUpTo(PageTexts, MaxPages)
    \cup { <<LongPage>>, <<LongPage, Hello>>, <<Hello, LongPage, World>> }

\* What PdfReader makes of the uploaded bytes: it raises, or it yields pages,
\* each with the text page.extract_text() returns.
Files ==
    { [size |-> n, ok |-> FALSE, pages |-> <<>>] : n \in Sizes }
    \cup { [size |-> n, ok |-> TRUE, pages |-> p] : n \in Sizes, p \in Documents }

(***************************************************************************)
(* Validation (app.py:170-189).                                            *)
(***************************************************************************)
AuthFailsOmittedPasses(secret, key) ==
    Truthy(secret) /\ key # None /\ key # secret

AuthFails(secret, key) == Truthy(secret) /\ key # secret

NotPdf(ct) == ct # "application/pdf"

TooLarge50(n) == n > 50 * 1024 * 1024

TooLarge(n) == n > FileSizeLimit

(***************************************************************************)
(* Responses.                                                              *)
(***************************************************************************)
NoResponse == [status_code |-> 0, body |-> [none |-> TRUE]]

\* raise HTTPException(status_code=401, detail="Unauthorized")
UnauthorizedResponse == [status_code |-> 401, body |-> [detail |-> "Unauthorized"]]

ErrorResponseNoId(status, message, rid) ==
    [status_code |-> status, body |-> [error |-> message]]

\* JSONResponse(status_code=..., content={"error": ..., "request_id": ...})
ErrorResponse(status, message, rid) ==
    [status_code |-> status, body |-> [error |-> message, request_id |-> rid]]

(***************************************************************************)
(* The text extractor (app.py:58-65).                                      *)
(***************************************************************************)
RECURSIVE extract_text_every_page(_)
extract_text_every_page(pages) ==
    IF pages = <<>> THEN <<>>
    ELSE extract_text_every_page(SubSeq(pages, 1, Len(pages) - 1))
         \o pages[Len(pages)] \o <<"\n">>

\* text = ""; for page in pages: if extracted: text += extracted + "\n"
RECURSIVE extract_text_from_pdf(_)
extract_text_from_pdf(pages) ==
    IF pages = <<>> THEN <<>>
    ELSE LET before == extract_text_from_pdf(SubSeq(pages, 1, Len(pages) - 1))
             extracted == pages[Len(pages)]
         IN  IF extracted # <<>> THEN before \o extracted \o <<"\n">> ELSE before

\* str.strip(): the text without its leading and trailing whitespace.
strip(s) ==
    IF \A i \in 1..Len(s) : s[i] \in Whitespace THEN <<>>
    ELSE LET first == CHOOSE i \in 1..Len(s) :
                          /\ s[i] \notin Whitespace
                          /\ \A j \in 1..(i - 1) : s[j] \in Whitespace
             last == CHOOSE i \in 1..Len(s) :
                         /\ s[i] \notin Whitespace
                         /\ \A j \in (i + 1)..Len(s) : s[j] \in Whitespace
         IN  SubSeq(s, first, last)

NoTextUnstripped(t) == t = <<>>

\* if not text.strip()
NoText(t) == strip(t) = <<>>

(***************************************************************************)
(* Chunking and the prompt (app.py:70-71, 152, 204-205).                   *)
(***************************************************************************)
Min(a, b) == IF a < b THEN a ELSE b

\* [text[i:i+size] for i in range(0, len(text), size)]
chunk_text(t, size) ==
    [k \in 1..((Len(t) + size - 1) \div size) |->
        SubSeq(t, (k - 1) * size + 1, Min(k * size, Len(t)))]

\* sep.join(parts)
RECURSIVE join(_, _)
join(sep, parts) ==
    IF parts = <<>> THEN <<>>
    ELSE IF Len(parts) = 1 THEN parts[1]
    ELSE join(sep, SubSeq(parts, 1, Len(parts) - 1)) \o sep \o parts[Len(parts)]

\* The fixed instruction block of extract_json_from_text, as one symbol.
Prompt == <<"<prompt>">>

\* prompt + "\n\nDocument Text:\n" + text
UserContent(t) == Prompt \o <<"\n", "\n", "Document Text:", "\n">> \o t

(***************************************************************************)
(* json.loads on the completion text (app.py:156), for scalars and flat    *)
(* objects.  A result is [raised, exc, value].                             *)
(***************************************************************************)
StringToks == {"agency_name", "state", "CA"}
ValueToks == StringToks \cup {"null", "true", "1"}

PyValue(tok) ==
    IF tok \in StringToks THEN [t |-> "str", v |-> tok]
    ELSE IF tok = "null" THEN [t |-> "NoneType", v |-> "None"]
    ELSE IF tok = "true" THEN [t |-> "bool", v |-> "True"]
    ELSE [t |-> "int", v |-> tok]

EmptyDict == [k \in {} |-> PyValue("null")]

Raised(exc) == [raised |-> TRUE, exc |-> exc, value |-> PyValue("null")]
Returned(value) == [raised |-> FALSE, exc |-> "", value |-> value]

\* The members of an object from token i on; a later duplicate key wins.
RECURSIVE ParseMembers(_, _, _)
ParseMembers(toks, i, acc) ==
    IF i + 3 > Len(toks) THEN Raised("JSONDecodeError")
    ELSE IF ~(toks[i] \in StringToks /\ toks[i + 1] = ":" /\ toks[i + 2] \in ValueToks)
    THEN Raised("JSONDecodeError")
    ELSE LET key == toks[i]
             acc2 == [k \in (DOMAIN acc) \cup {key} |->
                         IF k = key THEN PyValue(toks[i + 2]) ELSE acc[k]]
         IN  IF toks[i + 3] = "}"
             THEN IF i + 3 = Len(toks)
                  THEN Returned([t |-> "dict", v |-> acc2])
                  ELSE Raised("JSONDecodeError")
             ELSE IF toks[i + 3] = ","
             THEN ParseMembers(toks, i + 4, acc2)
             ELSE Raised("JSONDecodeError")

ParseTokens(toks) ==
    IF toks = <<>> THEN Raised("JSONDecodeError")
    ELSE IF toks[1] \in ValueToks
    THEN IF Len(toks) = 1 THEN Returned(PyValue(toks[1]))
         ELSE Raised("JSONDecodeError")
    ELSE IF toks[1] # "{" THEN Raised("JSONDecodeError")
    ELSE IF Len(toks) >= 2 /\ toks[2] = "}"
    THEN IF Len(toks) = 2 THEN Returned([t |-> "dict", v |-> EmptyDict])
         ELSE Raised("JSONDecodeError")
    ELSE ParseMembers(toks, 2, EmptyDict)

\* A parser that stops at the end of the first value and ignores what follows.
json_loads_prefix(content) ==
    IF content.kind = "none" THEN Raised("TypeError")
    ELSE IF \E n \in 1..Len(content.toks) :
                ~ParseTokens(SubSeq(content.toks, 1, n)).raised
    THEN ParseTokens(SubSeq(content.toks, 1,
             CHOOSE n \in 1..Len(content.toks) :
                 ~ParseTokens(SubSeq(content.toks, 1, n)).raised))
    ELSE Raised("JSONDecodeError")

\* json.loads(response.choices[0].message.content); content may be None.
json_loads(content) ==
    IF content.kind = "none" THEN Raised("TypeError")
    ELSE ParseTokens(content.toks)

\* validate_output of main.py: backfill of the required fields with None
\* (two of its nine fields); the served handler does not call it.
RequiredFields == {"agency_name", "state"}
validate_output(data) ==
    IF data.t # "dict" THEN data
    ELSE [t |-> "dict",
          v |-> [k \in (DOMAIN data.v) \cup RequiredFields |->
                   IF k \in DOMAIN data.v THEN data.v[k] ELSE PyValue("null")]]

SuccessResponseBackfilled(rid, data) ==
    [status_code |-> 200,
     body |-> [status |-> "success", request_id |-> rid, data |-> validate_output(data)]]

\* return {"status": "success", "request_id": request_id, "data": data}
SuccessResponse(rid, data) ==
    [status_code |-> 200,
     body |-> [status |-> "success", request_id |-> rid, data |-> data]]

\* What the completion service may answer: the call raises, the message has
\* no content, or the content is one of these token sequences.
CompletionTexts ==
    { <<"{", "}">>,
      <<"{", "state", ":", "CA", "}">>,
      <<"{", "agency_name", ":", "null", ",", "state", ":", "CA", "}">>,
      <<"{", "state", ":", "CA", ",", "state", ":", "null", "}">>,
      <<"{", "CA", ":", "1", "}">>,
      <<"{", "agency_name", ":", "true", "}">>,
      <<"null">>,
      <<>>,
      <<"Sorry">>,
      <<"{", "state", ":", "CA">>,
      <<"{", "state", ":", "CA", ",", "}">>,
      <<"{", "state", "CA", "}">>,
      <<"{", "}", "}">>,
      <<"{", "state", ":", "CA", "}", "Sorry">> }

Completions ==
    { [kind |-> "raise", toks |-> <<>>], [kind |-> "none", toks |-> <<>>] }
    \cup { [kind |-> "text", toks |-> c] : c \in CompletionTexts }

\* The statement that follows a step when the step neither returns nor raises
\* (the order of the statements of extract_acord, app.py:170-216).
NextStepSizeFirst(step) ==
    CASE step = "auth" -> "size"
      [] step = "size" -> "content_type"
      [] step = "content_type" -> "extract"
      [] step = "extract" -> "nonempty"
      [] step = "nonempty" -> "chunk"
      [] step = "chunk" -> "prompt"
      [] step = "prompt" -> "call"
      [] step = "call" -> "relay"
      [] OTHER -> "done"

NextStep(step) ==
    CASE step = "auth" -> "content_type"
      [] step = "content_type" -> "size"
      [] step = "size" -> "extract"
      [] step = "extract" -> "nonempty"
      [] step = "nonempty" -> "chunk"
      [] step = "chunk" -> "prompt"
      [] step = "prompt" -> "call"
      [] step = "call" -> "relay"
      [] OTHER -> "done"

\* Where the handler goes after the completion call: on to json.loads, or to
\* the except clause, which returns (app.py:207, 218-223).
AfterCallRetry(raised) == IF raised THEN "call" ELSE NextStep("call")

AfterCall(raised) == IF raised THEN "done" ELSE NextStep("call")

Init ==
    /\ API_SECRET \in Secrets
    /\ pc = "idle"
    /\ handled = 0
    /\ x_api_key = None
    /\ content_type = None
    /\ file = [size |-> 0, ok |-> FALSE, pages |-> <<>>]
    /\ request_id = 0
    /\ text = <<>>
    /\ combined_text = <<>>
    /\ user_content = <<>>
    /\ completion = [kind |-> "unset", toks |-> <<>>]
    /\ response = NoResponse
    /\ steps = <<>>
    /\ extractor_calls = 0
    /\ completion_calls = 0

\* A request arrives; request_id = str(uuid.uuid4()) (app.py:167).
Receive ==
    /\ pc = "idle"
    /\ handled < MaxRequests
    /\ handled' = handled + 1
    /\ request_id' = handled + 1
    /\ x_api_key' \in Headers
    /\ content_type' \in ContentTypes
    /\ file' \in Files
    /\ text' = <<>>
    /\ combined_text' = <<>>
    /\ user_content' = <<>>
    /\ completion' = [kind |-> "unset", toks |-> <<>>]
    /\ response' = NoResponse
    /\ steps' = <<>>
    /\ extractor_calls' = 0
    /\ completion_calls' = 0
    /\ pc' = "auth"
    /\ UNCHANGED API_SECRET

\* if API_SECRET and x_api_key != API_SECRET: raise HTTPException(401)
CheckAuth ==
    /\ pc = "auth"
    /\ steps' = Append(steps, "auth")
    /\ IF AuthFails(API_SECRET, x_api_key)
       THEN /\ response' = UnauthorizedResponse
            /\ pc' = "done"
       ELSE /\ response' = response
            /\ pc' = NextStep("auth")
    /\ UNCHANGED <<API_SECRET, handled, x_api_key, content_type, file, request_id,
                   text, combined_text, user_content, completion,
                   extractor_calls, completion_calls>>

\* if file.content_type != "application/pdf": return 400 (app.py:173-177)
CheckContentType ==
    /\ pc = "content_type"
    /\ steps' = Append(steps, "content_type")
    /\ IF NotPdf(content_type)
       THEN /\ response' = ErrorResponse(400, "Only PDF files allowed", request_id)
            /\ pc' = "done"
       ELSE /\ response' = response
            /\ pc' = NextStep("content_type")
    /\ UNCHANGED <<API_SECRET, handled, x_api_key, content_type, file, request_id,
                   text, combined_text, user_content, completion,
                   extractor_calls, completion_calls>>

\* file_bytes = await file.read(); if len(file_bytes) > 5 MiB: return 400
\* (app.py:182-189)
CheckSize ==
    /\ pc = "size"
    /\ steps' = Append(steps, "size")
    /\ IF TooLarge(file.size)
       THEN /\ response' = ErrorResponse(400, "File too large (max 5MB)", request_id)
            /\ pc' = "done"
       ELSE /\ response' = response
            /\ pc' = NextStep("size")
    /\ UNCHANGED <<API_SECRET, handled, x_api_key, content_type, file, request_id,
                   text, combined_text, user_content, completion,
                   extractor_calls, completion_calls>>

\* text = extract_text_from_pdf(file_bytes) (app.py:192-195); an exception of
\* the parser goes to the except clause (app.py:218-223).
ExtractText ==
    /\ pc = "extract"
    /\ steps' = Append(steps, "extract")
    /\ extractor_calls' = extractor_calls + 1
    /\ IF file.ok
       THEN /\ text' = extract_text_from_pdf(file.pages)
            /\ response' = response
            /\ pc' = NextStep("extract")
       ELSE /\ text' = text
            /\ response' = ErrorResponse(500, "PdfReadError", request_id)
            /\ pc' = "done"
    /\ UNCHANGED <<API_SECRET, handled, x_api_key, content_type, file, request_id,
                   combined_text, user_content, completion, completion_calls>>

\* if not text.strip(): return 400 (app.py:197-201)
CheckText ==
    /\ pc = "nonempty"
    /\ steps' = Append(steps, "nonempty")
    /\ IF NoText(text)
       THEN /\ response' = ErrorResponse(400, "No readable text found in PDF", request_id)
            /\ pc' = "done"
       ELSE /\ response' = response
            /\ pc' = NextStep("nonempty")
    /\ UNCHANGED <<API_SECRET, handled, x_api_key, content_type, file, request_id,
                   text, combined_text, user_content, completion,
                   extractor_calls, completion_calls>>

\* chunks = chunk_text(text); combined_text = "\n".join(chunks) (app.py:204-205)
ChunkAndJoin ==
    /\ pc = "chunk"
    /\ steps' = Append(steps, "chunk")
    /\ combined_text' = join(<<"\n">>, chunk_text(text, ChunkSize))
    /\ pc' = NextStep("chunk")
    /\ UNCHANGED <<API_SECRET, handled, x_api_key, content_type, file, request_id,
                   text, user_content, completion, response,
                   extractor_calls, completion_calls>>

\* extract_json_from_text builds the messages (app.py:78-153)
BuildPrompt ==
    /\ pc = "prompt"
    /\ steps' = Append(steps, "prompt")
    /\ user_content' = UserContent(combined_text)
    /\ pc' = NextStep("prompt")
    /\ UNCHANGED <<API_SECRET, handled, x_api_key, content_type, file, request_id,
                   text, combined_text, completion, response,
                   extractor_calls, completion_calls>>

\* response = client.chat.completions.create(...) (app.py:147-154); an
\* exception of the call goes to the except clause (app.py:218-223).
CallCompletion ==
    /\ pc = "call"
    /\ steps' = Append(steps, "call")
    /\ completion_calls' = completion_calls + 1
    /\ \E c \in Completions :
        /\ completion' = c
        /\ pc' = AfterCall(c.kind = "raise")
        /\ response' = IF c.kind = "raise"
                       THEN ErrorResponse(500, "APIError", request_id)
                       ELSE response
    /\ UNCHANGED <<API_SECRET, handled, x_api_key, content_type, file, request_id,
                   text, combined_text, user_content, extractor_calls>>

\* json.loads of the content and the success envelope (app.py:156, 209-216);
\* an exception of json.loads goes to the except clause (app.py:218-223).
Relay ==
    /\ pc = "relay"
    /\ steps' = Append(steps, "relay")
    /\ LET parsed == json_loads(completion)
       IN  response' = IF parsed.raised
                       THEN ErrorResponse(500, parsed.exc, request_id)
                       ELSE SuccessResponse(request_id, parsed.value)
    /\ pc' = NextStep("relay")
    /\ UNCHANGED <<API_SECRET, handled, x_api_key, content_type, file, request_id,
                   text, combined_text, user_content, completion,
                   extractor_calls, completion_calls>>

\* The response is sent; nothing of the request outlives it.
Finish ==
    /\ pc = "done"
    /\ pc' = "idle"
    /\ x_api_key' = None
    /\ content_type' = None
    /\ file' = [size |-> 0, ok |-> FALSE, pages |-> <<>>]
    /\ text' = <<>>
    /\ combined_text' = <<>>
    /\ user_content' = <<>>
    /\ completion' = [kind |-> "unset", toks |-> <<>>]
    /\ response' = NoResponse
    /\ steps' = <<>>
    /\ extractor_calls' = 0
    /\ completion_calls' = 0
    /\ UNCHANGED <<API_SECRET, handled, request_id>>

Next ==
    \/ Receive
    \/ CheckAuth
    \/ CheckContentType
    \/ CheckSize
    \/ ExtractText
    \/ CheckText
    \/ ChunkAndJoin
    \/ BuildPrompt
    \/ CallCompletion
    \/ Relay
    \/ Finish

Spec == Init /\ [][Next]_vars
(***************************************************************************)
(* Properties.  The predicates below describe the request by its inputs,   *)
(* not by the operators of the handler.                                    *)
(***************************************************************************)
SecretConfigured == API_SECRET # None /\ API_SECRET # ""
Authorized == ~SecretConfigured \/ x_api_key = API_SECRET
IsPdfType == content_type = "application/pdf"
WithinSize == file.size <= 5 * 1024 * 1024
HasRun(step) == \E i \in 1..Len(steps) : steps[i] = step
IsPrefix(s, t) == Len(s) <= Len(t) /\ SubSeq(t, 1, Len(s)) = s

\* C1: with a secret configured and the x-api-key header omitted or different,
\* the request ends with 401 right after the authorization check, and neither
\* the extractor nor the completion service is called for it, whatever the
\* file's content-type, size and contents.
C1_UnauthorizedEndsWith401 ==
    (pc # "idle" /\ SecretConfigured /\ x_api_key # API_SECRET) =>
        /\ extractor_calls = 0
        /\ completion_calls = 0
        /\ pc \in {"auth", "done"}
        /\ pc = "done" => response.status_code = 401

\* C1 witness: a well-typed, readable PDF sent without the header is answered 401.
C1_Witness ==
    /\ pc = "done"
    /\ SecretConfigured
    /\ x_api_key = None
    /\ IsPdfType /\ WithinSize /\ file.ok /\ file.pages = <<Hello, World>>
    /\ response.status_code = 401
    /\ extractor_calls = 0 /\ completion_calls = 0

C3_ChecksInOrder ==
    /\ IsPrefix(SubSeq(steps, 1, IF Len(steps) < 3 THEN Len(steps) ELSE 3),
                <<"auth", "content_type", "size">>)
    /\ (pc = "done" /\ ~Authorized) =>
          /\ response.status_code = 401
          /\ steps = <<"auth">>
    /\ (pc = "done" /\ Authorized /\ ~IsPdfType) =>
          /\ response.body.error = "Only PDF files allowed"
          /\ steps = <<"auth", "content_type">>
    /\ (pc = "done" /\ Authorized /\ IsPdfType /\ ~WithinSize) =>
          /\ response.body.error = "File too large (max 5MB)"
          /\ steps = <<"auth", "content_type", "size">>

\* C3 witness: a request failing the media-type and the size check at once is
\* answered by the media-type check.
C3_Witness ==
    /\ pc = "done"
    /\ Authorized /\ ~IsPdfType /\ ~WithinSize
    /\ response.body = [error |-> "Only PDF files allowed", request_id |-> request_id]
    /\ steps = <<"auth", "content_type">>

\* C5 (as stated): every error response of the endpoint, 401 included, carries
\* a message and the request identifier of the request.
C5_EveryErrorCarriesRequestId ==
    (pc = "done" /\ response.status_code >= 400) =>
        /\ "request_id" \in DOMAIN response.body
        /\ response.body.request_id = request_id

\* C5 (amended): every 400 and 500 response carries {error: message,
\* request_id} with the identifier of the request; the 401 response carries
\* only the message 'Unauthorized' and no request identifier; no other error
\* status is produced by the handler.
C5_ErrorsButUnauthorizedCarryRequestId ==
    (pc = "done" /\ response.status_code # 200) =>
        /\ response.status_code \in {400, 401, 500}
        /\ response.status_code \in {400, 500} =>
              /\ DOMAIN response.body = {"error", "request_id"}
              /\ response.body.request_id = request_id
              /\ response.body.error # ""
        /\ response.status_code = 401 =>
              response.body = [detail |-> "Unauthorized"]

\* C5 witness: the second request's 500 response carries the second identifier.
C5_Witness ==
    /\ pc = "done"
    /\ handled = 2
    /\ response = [status_code |-> 500,
                   body |-> [error |-> "APIError", request_id |-> 2]]

\* C4 (as stated): whatever the length of the extracted text, the user message
\* of the completion call contains the whole extracted text verbatim as one
\* contiguous substring.
C4_PromptContainsTextVerbatim ==
    HasRun("prompt") =>
        \E i \in 0..(Len(user_content) - Len(text)) :
            SubSeq(user_content, i + 1, i + Len(text)) = text

IsNonEmptyPage(p) == p # <<>>
NonEmptyPages == SelectSeq(file.pages, IsNonEmptyPage)

\* The offset in the text at which the k-th page with text starts.
RECURSIVE SegmentOffset(_, _)
SegmentOffset(ps, k) ==
    IF k = 1 THEN 0 ELSE SegmentOffset(ps, k - 1) + Len(ps[k - 1]) + 1

Newlines(t) == Cardinality({ i \in 1..Len(t) : t[i] = "\n" })

\* C6: extract_text_from_pdf returns the concatenation, in page order, of
\* (page text + newline) for exactly the pages with non-empty text: the k-th
\* such page fills the k-th segment of the output, a newline ends it, and
\* nothing else is in the output; when no page text holds a newline of its
\* own the output has as many newlines as there are pages with text.
C6_ExtractorConcatenatesPages ==
    (pc = "nonempty" /\ file.ok) =>
        LET ps == NonEmptyPages
            n == Len(ps)
        IN  /\ Len(text) = SegmentOffset(ps, n + 1)
            /\ \A k \in 1..n :
                  LET off == SegmentOffset(ps, k)
                  IN  /\ SubSeq(text, off + 1, off + Len(ps[k])) = ps[k]
                      /\ text[off + Len(ps[k]) + 1] = "\n"
            /\ (\A k \in 1..n : Newlines(ps[k]) = 0) => Newlines(text) = n

\* C6 witness: pages "Hello" and "World" give "Hello\nWorld\n".
C6_Witness ==
    /\ pc = "nonempty"
    /\ file.pages = <<Hello, World>>
    /\ text = <<"H", "e", "l", "l", "o", "\n", "W", "o", "r", "l", "d", "\n">>

AllWhitespace(t) == \A i \in 1..Len(t) : t[i] \in {" ", "\n", "\t"}

\* C7: an authorized, PDF-typed, within-size request whose extracted text is
\* empty or whitespace-only is answered 400 'No readable text found in PDF'
\* with the request id, and the completion service is never called for it.
C7_NoReadableTextIs400 ==
    (HasRun("extract") /\ file.ok /\ AllWhitespace(text)) =>
        /\ completion_calls = 0
        /\ pc \in {"nonempty", "done"}
        /\ pc = "done" =>
              response = [status_code |-> 400,
                          body |-> [error |-> "No readable text found in PDF",
                                    request_id |-> request_id]]

\* C7 witness: a page of blanks gives a whitespace-only text and the 400 answer.
C7_Witness ==
    /\ pc = "done"
    /\ file.pages = <<<<" ">>>>
    /\ text = <<" ", "\n">>
    /\ response.status_code = 400
    /\ response.body.error = "No readable text found in PDF"
    /\ completion_calls = 0

\* The token sequences that are a JSON object: { } or { k : v , ... , k : v }.
IsJsonObject(toks) ==
    /\ Len(toks) >= 2
    /\ toks[1] = "{"
    /\ toks[Len(toks)] = "}"
    /\ Len(toks) = 2 \/ Len(toks) % 4 = 1
    /\ \A i \in 2..(Len(toks) - 1) :
          CASE (i - 2) % 4 = 0 -> toks[i] \in {"agency_name", "state", "CA"}
            [] (i - 2) % 4 = 1 -> toks[i] = ":"
            [] (i - 2) % 4 = 2 -> toks[i] \in {"agency_name", "state", "CA", "null", "true", "1"}
            [] OTHER -> toks[i] = ","

IsJsonText(toks) ==
    \/ IsJsonObject(toks)
    \/ Len(toks) = 1 /\ toks[1] \in {"agency_name", "state", "CA", "null", "true", "1"}

KeyPositions(toks) == { i \in 2..(Len(toks) - 1) : (i - 2) % 4 = 0 }

\* C8: whenever the completion text is a valid JSON object the request ends
\* with 200 {status: 'success', request_id, data}, and data is that object
\* field for field: its keys are the keys of the text, each with the value the
\* text gives it (the last one for a repeated key); nothing is added, removed,
\* backfilled or transformed.
C8_RelayReturnsObjectUnmodified ==
    (pc = "done" /\ completion.kind = "text" /\ IsJsonObject(completion.toks)) =>
        LET toks == completion.toks
            keys == { toks[i] : i \in KeyPositions(toks) }
        IN  /\ response.status_code = 200
            /\ DOMAIN response.body = {"status", "request_id", "data"}
            /\ response.body.status = "success"
            /\ response.body.request_id = request_id
            /\ response.body.data.t = "dict"
            /\ DOMAIN response.body.data.v = keys
            /\ \A k \in keys :
                  LET last == CHOOSE i \in KeyPositions(toks) :
                                  /\ toks[i] = k
                                  /\ \A j \in KeyPositions(toks) : toks[j] = k => j <= i
                  IN  response.body.data.v[k] = PyValue(toks[last + 2])

\* C8 witness: an object with a null field and a string field is relayed as is.
C8_Witness ==
    /\ pc = "done"
    /\ completion.toks = <<"{", "agency_name", ":", "null", ",", "state", ":", "CA", "}">>
    /\ response.status_code = 200
    /\ response.body.data =
          [t |-> "dict",
           v |-> [agency_name |-> [t |-> "NoneType", v |-> "None"],
                  state |-> [t |-> "str", v |-> "CA"]]]

\* C9: a failure after validation has passed (the parser raises, the
\* completion call raises, or the completion text is not JSON) ends the request
\* with 500 {error: message, request_id}; every request that ends has a
\* response, and such a request never has the 200 envelope.
C9_FailureAfterValidationIs500 ==
    /\ pc = "done" => response.status_code \in {200, 400, 401, 500}
    /\ (/\ pc = "done"
        /\ Authorized /\ IsPdfType /\ WithinSize
        /\ \/ ~file.ok
           \/ completion.kind \in {"raise", "none"}
           \/ completion.kind = "text" /\ ~IsJsonText(completion.toks)) =>
          /\ response.status_code = 500
          /\ DOMAIN response.body = {"error", "request_id"}
          /\ response.body.request_id = request_id
          /\ response.body.error \in {"PdfReadError", "APIError", "JSONDecodeError", "TypeError"}

\* C9 witness: a JSON object followed by more text is answered 500.
C9_Witness ==
    /\ pc = "done"
    /\ completion = [kind |-> "text", toks |-> <<"{", "}", "}">>]
    /\ response = [status_code |-> 500,
                   body |-> [error |-> "JSONDecodeError", request_id |-> request_id]]

HasText == \E k \in 1..Len(file.pages) : ~AllWhitespace(file.pages[k])

\* C10: a request causes at most one call of the completion service, and
\* exactly one when authorization, content-type, size and the non-empty-text
\* check all pass; the steps run in the order validate, extract, build prompt,
\* call, relay, and the call is never repeated after it fails or returns
\* unparseable text.
C10_AtMostOneCompletionCall ==
    /\ completion_calls <= 1
    /\ IsPrefix(steps, <<"auth", "content_type", "size", "extract", "nonempty",
                         "chunk", "prompt", "call", "relay">>)
    /\ completion_calls = Cardinality({ i \in 1..Len(steps) : steps[i] = "call" })
    /\ pc = "done" =>
          (completion_calls = 1 <=>
              (Authorized /\ IsPdfType /\ WithinSize /\ file.ok /\ HasText))

\* C10 witness: the call failed, the request ended, and one call was made.
C10_Witness ==
    /\ pc = "done"
    /\ completion.kind = "raise"
    /\ completion_calls = 1
    /\ response.status_code = 500

====
